---- MODULE Spec2Model ----
(***************************************************************************)
(* State-machine model of the two conversion pipelines of the repository: *)
(* repo-converter.js (the general pipeline) and                            *)
(* angular-to-react-converter.js (the framework pipeline).                 *)
(*                                                                         *)
(* Paths and file names are strings; the JavaScript string and path       *)
(* functions the code uses (startsWith, endsWith, includes, replace,       *)
(* path.extname, path.join, path.relative) are operators that compute what *)
(* the library functions compute.  The file system is a set of file paths  *)
(* (temp-repo) and a function from file paths to contents (converted-code).*)
(* The AI service, git and the file system's failures are the environment: *)
(* their outcomes are nondeterministic choices of the actions.             *)
(***************************************************************************)
EXTENDS Naturals, Sequences, FiniteSets, TLC

\* ------------------------------------------------------------------ bounds

\* Largest number of files a cloned repository holds (besides .git).
MaxFiles == 3
\* Largest number of rate-limit (429) responses the service gives in a run.
MaxRateLimits == 2

\* ------------------------------------------------- JavaScript string library

\* String.prototype.startsWith
StartsWith(s, p) == Len(s) >= Len(p) /\ SubSeq(s, 1, Len(p)) = p

\* String.prototype.endsWith
EndsWith(s, p) == Len(s) >= Len(p) /\ SubSeq(s, Len(s) - Len(p) + 1, Len(s)) = p

\* The 1-based positions at which sub occurs in s.
Occurrences(s, sub) ==
  { k \in 1..(Len(s) + 1) : k + Len(sub) - 1 <= Len(s) /\ SubSeq(s, k, k + Len(sub) - 1) = sub }

\* String.prototype.includes
Includes(s, sub) == Occurrences(s, sub) # {}

\* String.prototype.indexOf, 1-based; 0 when sub does not occur.
IndexOf(s, sub) ==
  IF Occurrences(s, sub) = {} THEN 0
  ELSE CHOOSE k \in Occurrences(s, sub) : \A j \in Occurrences(s, sub) : k <= j

\* String.prototype.lastIndexOf, 1-based; 0 when sub does not occur.
LastIndexOf(s, sub) ==
  IF Occurrences(s, sub) = {} THEN 0
  ELSE CHOOSE k \in Occurrences(s, sub) : \A j \in Occurrences(s, sub) : k >= j

\* String.prototype.replace with a string pattern: only the FIRST occurrence
\* of pat in s is replaced.
Replace(s, pat, rep) ==
  LET k == IndexOf(s, pat)
  IN  IF k = 0 THEN s
      ELSE SubSeq(s, 1, k - 1) \o rep \o SubSeq(s, k + Len(pat), Len(s))

\* --------------------------------------------------------- node:path library

\* path.basename: the last portion of a path.
BaseName(p) == SubSeq(p, LastIndexOf(p, "/") + 1, Len(p))

\* path.dirname: everything before the last separator ("." when there is none).
DirName(p) == IF LastIndexOf(p, "/") = 0 THEN "." ELSE SubSeq(p, 1, LastIndexOf(p, "/") - 1)

\* path.extname: from the last "." of the last portion to the end; empty when
\* there is no "." or the only "." is the first character of the portion.
ExtName(p) ==
  LET b == BaseName(p)
      k == LastIndexOf(b, ".")
  IN  IF k <= 1 THEN "" ELSE SubSeq(b, k, Len(b))

\* path.join of two normalised portions.
Join(a, b) == a \o "/" \o b

\* path.relative(from, to) for a path to below the directory from.
Relative(from, to) == SubSeq(to, Len(from) + 2, Len(to))

\* ------------------------------------------------------ program constants

tempDir == "temp-repo"
outputDir == "converted-code"

\* The extension list of getCodeFiles.
CodeExtensions == {".js", ".ts", ".py", ".java", ".cpp", ".c", ".php", ".rb", ".go", ".rs"}

\* langMap of getLanguageFromExt, as a set of <<extension, language>> pairs.
langMap ==
  { <<".js", "JavaScript">>, <<".ts", "TypeScript">>, <<".py", "Python">>,
    <<".java", "Java">>, <<".cpp", "C++">>, <<".c", "C">>, <<".php", "PHP">>,
    <<".rb", "Ruby">>, <<".go", "Go">>, <<".rs", "Rust">> }

\* extMap of getExtFromLanguage, as a set of <<language, extension>> pairs.
extMap ==
  { <<"JavaScript", ".js">>, <<"TypeScript", ".ts">>, <<"Python", ".py">>,
    <<"Java", ".java">>, <<"C++", ".cpp">>, <<"C", ".c">>, <<"PHP", ".php">>,
    <<"Ruby", ".rb">>, <<"Go", ".go">>, <<"Rust", ".rs">> }

\* A table in which .c is taken for C++ as .cpp is.
getLanguageFromExtCAsCpp(ext) ==
  IF ext = ".c" THEN "C++"
  ELSE IF \E e \in langMap : e[1] = ext
       THEN (CHOOSE e \in langMap : e[1] = ext)[2] ELSE "Unknown"

\* langMap[ext] || 'Unknown'
getLanguageFromExt(ext) ==
  IF \E e \in langMap : e[1] = ext THEN (CHOOSE e \in langMap : e[1] = ext)[2] ELSE "Unknown"

\* extMap[lang] || '.txt'
getExtFromLanguage(lang) ==
  IF \E e \in extMap : e[1] = lang THEN (CHOOSE e \in extMap : e[1] = lang)[2] ELSE ".txt"

\* ------------------------------------------------------------ environment

\* The file paths a cloned repository may hold, relative to its root: for
\* each pipeline the files its discovery tells apart.
Universe(pl) ==
  IF pl = "general"
  THEN { "a.js", "a.ts", "b.md", "a.json.js", "node_modules/x.js", "src/app/foo.ts",
         "src/.cache/y.ts" }
  ELSE { "a.js", "node_modules/x.js", "src/a.spec.ts", "src/app/foo.ts",
         "src/.cache/y.component.ts",
         "src/app/foo.component.ts", "src/app/foo.component.html",
         "src/app/foo.component.css", "src/app/foo.component.scss" }

\* What git itself leaves in every clone.
GitFiles == { ".git/config" }

\* The parsed content of a package.json: valid is FALSE when JSON.parse throws.
PkgContents ==
  { [valid |-> FALSE, dependencies |-> {}, devDependencies |-> {}],
    [valid |-> TRUE, dependencies |-> {}, devDependencies |-> {}],
    [valid |-> TRUE, dependencies |-> {"react"}, devDependencies |-> {}],
    [valid |-> TRUE, dependencies |-> {"react"}, devDependencies |-> {"@angular/cli"}] }

NoPkg == [valid |-> FALSE, dependencies |-> {}, devDependencies |-> {}]

\* The project manifests of a repository: which of angular.json and
\* package.json exist, and what package.json holds.
Manifests ==
  { [files |-> {}, pkg |-> NoPkg], [files |-> {"angular.json"}, pkg |-> NoPkg] }
  \cup { [files |-> {"package.json"}, pkg |-> c] : c \in PkgContents }
  \cup { [files |-> {"angular.json", "package.json"}, pkg |-> NoPkg] }

\* The repositories behind the URL: at most MaxFiles files of the universe,
\* and the project manifests (every combination for the framework pipeline,
\* which reads them; none for the general pipeline, which never does).
Repositories(pl) ==
  { [files |-> code \cup m.files, pkg |-> m.pkg] :
      code \in { c \in SUBSET Universe(pl) : Cardinality(c) <= MaxFiles },
      m \in IF pl = "framework" THEN Manifests ELSE { [files |-> {}, pkg |-> NoPkg] } }

\* The target-language names given on the command line ("" when missing).
TargetLanguages == { "Python", "Klingon" }
NoArg == ""

\* A directory that does not exist, and an existing empty one.
NoFiles == [p \in {} |-> ""]
AbsentTree == [exists |-> FALSE, files |-> {}, pkg |-> NoPkg]
AbsentOutput == [exists |-> FALSE, files |-> NoFiles]
EmptyOutput == [exists |-> TRUE, files |-> NoFiles]

\* What earlier runs may have left behind: nothing (a first run), an output
\* tree (a run that ended through finally), or both directories (a run that
\* ended before finally).
StaleTree == [exists |-> TRUE, files |-> {Join(tempDir, "old.js")}, pkg |-> NoPkg]
StaleOutput ==
  [exists |-> TRUE,
   files |-> [p \in {Join(outputDir, "old.py"), Join(outputDir, "package.json")} |-> "stale"]]
StaleStates ==
  { <<AbsentTree, AbsentOutput>>, <<AbsentTree, StaleOutput>>, <<StaleTree, StaleOutput>> }

\* --------------------------------------------------------------- file system

\* fs.existsSync for a file or a directory of the tree.
existsSync(tree, full) ==
  tree.exists /\ (full = tempDir \/ full \in tree.files
                  \/ \E p \in tree.files : StartsWith(p, full \o "/"))

\* fs.statSync(full).isDirectory() and .isFile()
isDirectory(tree, full) == \E p \in tree.files : StartsWith(p, full \o "/")
isFile(tree, full) == full \in tree.files

\* fs.readdirSync: the names of the entries of a directory.
readdirSync(tree, dir) ==
  { LET rest == SubSeq(p, Len(dir) + 2, Len(p))
        k == IndexOf(rest, "/")
    IN  IF k = 0 THEN rest ELSE SubSeq(rest, 1, k - 1)
    : p \in { q \in tree.files : StartsWith(q, dir \o "/") } }

\* The orders in which a directory listing may come: the code does not sort it.
RECURSIVE Orderings(_)
Orderings(S) ==
  IF S = {} THEN { <<>> }
  ELSE UNION { { <<x>> \o s : s \in Orderings(S \ {x}) } : x \in S }

null == ""

\* A secondary pass that does not leave out the component files.
SelectedOtherKeepsComponents(kind, item) ==
  CASE kind = "code" -> ExtName(item) \in CodeExtensions
    [] kind = "component" -> EndsWith(item, ".component.ts")
    [] kind = "other" -> /\ ExtName(item) \in {".ts", ".js"}
                         /\ ~Includes(item, ".spec.")

\* A selection that takes, as code, every file that has an extension.
SelectedWhateverExtension(kind, item) ==
  CASE kind = "code" -> ExtName(item) # ""
    [] kind = "component" -> EndsWith(item, ".component.ts")
    [] kind = "other" -> /\ ExtName(item) \in {".ts", ".js"}
                         /\ ~Includes(item, ".component.")
                         /\ ~Includes(item, ".spec.")

\* Which files each of the three discovery functions selects.
Selected(kind, item) ==
  CASE kind = "code" -> ExtName(item) \in CodeExtensions
    [] kind = "component" -> EndsWith(item, ".component.ts")
    [] kind = "other" -> /\ ExtName(item) \in {".ts", ".js"}
                         /\ ~Includes(item, ".component.")
                         /\ ~Includes(item, ".spec.")

\* What each discovery function pushes for a selected file.
Pushed(kind, tree, fullPath, item) ==
  IF kind = "component"
  THEN LET componentDir == DirName(fullPath)
           baseName == Replace(item, ".component.ts", "")
           htmlFile == Join(componentDir, baseName \o ".component.html")
           cssFile == Join(componentDir, baseName \o ".component.css")
           scssFile == Join(componentDir, baseName \o ".component.scss")
       IN  [ts |-> fullPath,
            html |-> IF existsSync(tree, htmlFile) THEN htmlFile ELSE null,
            css |-> IF existsSync(tree, cssFile) THEN cssFile
                    ELSE IF existsSync(tree, scssFile) THEN scssFile ELSE null]
  ELSE fullPath

\* A traversal that skips node_modules only, and descends into the
\* directories whose names start with a dot.
RECURSIVE traverseIntoHidden(_, _, _)
traverseIntoHidden(tree, currentPath, kind) ==
  LET items == readdirSync(tree, currentPath)
      visit(item) ==
        LET fullPath == Join(currentPath, item)
        IN  IF isDirectory(tree, fullPath) /\ item # "node_modules"
            THEN traverseIntoHidden(tree, fullPath, kind)
            ELSE IF isFile(tree, fullPath) /\ Selected(kind, item)
                 THEN { <<Pushed(kind, tree, fullPath, item)>> }
                 ELSE { <<>> }
      walk(order) ==
        LET acc[k \in 0..Len(order)] ==
              IF k = 0 THEN { <<>> }
              ELSE { a \o b : a \in acc[k - 1], b \in visit(order[k]) }
        IN  acc[Len(order)]
      pushing == { item \in items : visit(item) # { <<>> } }
  IN  UNION { walk(order) : order \in Orderings(pushing) }

\* The inner function traverse of getCodeFiles, findAngularComponents and
\* getOtherFiles: depth-first, skipping hidden directories and node_modules.
\* The result is the set of lists the traversal can produce, one for each
\* order of the directory listings.
RECURSIVE traverse(_, _, _)
traverse(tree, currentPath, kind) ==
  LET items == readdirSync(tree, currentPath)
      visit(item) ==
        LET fullPath == Join(currentPath, item)
        IN  IF isDirectory(tree, fullPath) /\ ~StartsWith(item, ".") /\ item # "node_modules"
            THEN traverse(tree, fullPath, kind)
            ELSE IF isFile(tree, fullPath) /\ Selected(kind, item)
                 THEN { <<Pushed(kind, tree, fullPath, item)>> }
                 ELSE { <<>> }
      walk(order) ==
        LET acc[k \in 0..Len(order)] ==
              IF k = 0 THEN { <<>> }
              ELSE { a \o b : a \in acc[k - 1], b \in visit(order[k]) }
        IN  acc[Len(order)]
      \* An entry that pushes nothing pushes nothing at any position of the
      \* listing: only the order of the others shows in the result.
      pushing == { item \in items : visit(item) # { <<>> } }
  IN  UNION { walk(order) : order \in Orderings(pushing) }

getCodeFiles(tree) == traverse(tree, tempDir, "code")
findAngularComponents(tree) == traverse(tree, tempDir, "component")
getOtherFiles(tree) == traverse(tree, tempDir, "other")

\* isAngularProject: "throws" when package.json cannot be parsed.
isAngularProject(tree) ==
  IF existsSync(tree, Join(tempDir, "angular.json")) THEN "true"
  ELSE IF existsSync(tree, Join(tempDir, "package.json"))
       THEN IF ~tree.pkg.valid THEN "throws"
            ELSE IF \E dep \in tree.pkg.dependencies \cup tree.pkg.devDependencies :
                      StartsWith(dep, "@angular/")
                 THEN "true" ELSE "false"
       ELSE "false"

\* --------------------------------------------------------------------- state

VARIABLES
  pipeline,        \* "general" (repo-converter.js) or "framework" (angular-to-react-converter.js)
  repoUrl,         \* process.argv[2] is given
  targetLanguage,  \* process.argv[3], NoArg when missing
  remote,          \* the repository behind the URL
  tempRepo,        \* the directory temp-repo
  output,          \* the directory converted-code
  pc,              \* where the process is
  exitCode,        \* the exit code, once pc = "exited"
  error,           \* the error main's try block threw, "none" when none
  codeFiles,       \* main's codeFiles (general pipeline)
  components,      \* main's components (framework pipeline)
  otherFiles,      \* main's otherFiles (framework pipeline)
  phase,           \* the loop main is in: "files", "components", "others"
  i,               \* the position of main's loop in its list
  converted,       \* the text of the last successful response
  requests,        \* the number of requests sent to the AI service
  rateLimited,     \* the number of 429 responses the service gave
  events           \* everything the process did, in order

vars ==
  << pipeline, repoUrl, targetLanguage, remote, tempRepo, output, pc, exitCode, error,
     codeFiles, components, otherFiles, phase, i, converted, requests, rateLimited, events >>

\* One entry of events: what happened, for which unit (the unit's source
\* path), at which path and with which text.
Event(ev, unit, path, text) == [ev |-> ev, unit |-> unit, path |-> path, text |-> text]
Log(msg) == Event("log", "", "", msg)

\* The list main's loop runs over, and the source path of its current unit.
CurrentList ==
  CASE phase = "files" -> codeFiles
    [] phase = "components" -> components
    [] phase = "others" -> otherFiles
CurrentUnit ==
  IF phase = "components" THEN components[i].ts ELSE CurrentList[i]

\* The text the service answers its n-th request with: responses are opaque,
\* so each is a text of its own.
ResponseText(n) == "response " \o ToString(n)

\* JSON.stringify(reactPkg, null, 2)
reactPkgJson == "reactPkg"

Init ==
  /\ pipeline \in {"general", "framework"}
  /\ repoUrl \in BOOLEAN
  /\ targetLanguage \in IF pipeline = "general" THEN TargetLanguages \cup {NoArg} ELSE {NoArg}
  /\ remote \in IF repoUrl /\ (pipeline = "framework" \/ targetLanguage # NoArg)
                THEN Repositories(pipeline)
                ELSE { [files |-> {}, pkg |-> NoPkg] }
  /\ \E stale \in StaleStates : tempRepo = stale[1] /\ output = stale[2]
  /\ pc = "start"
  /\ exitCode = 0
  /\ error = "none"
  /\ codeFiles = <<>>
  /\ components = <<>>
  /\ otherFiles = <<>>
  /\ phase = "none"
  /\ i = 0
  /\ converted = ""
  /\ requests = 0
  /\ rateLimited = 0
  /\ events = <<>>

\* ------------------------------------------------------------ output paths

\* repo-converter.js, main: newFilePath of a discovered file.
newFilePath(file, lang) ==
  LET ext == ExtName(file)
      newExt == getExtFromLanguage(lang)
      relativePath == Relative(tempDir, file)
  IN  Join(outputDir, Replace(relativePath, ext, newExt))

\* angular-to-react-converter.js, main: newPath of a component.
componentNewPath(ts) ==
  LET relativePath == Relative(tempDir, ts)
  IN  Join(Join(outputDir, "src"), Replace(relativePath, ".component.ts", ".tsx"))

\* angular-to-react-converter.js, main: newPath of another file.
otherNewPath(file) ==
  LET relativePath == Relative(tempDir, file)
  IN  Join(Join(outputDir, "src"), Replace(relativePath, ".ts", ".tsx"))

\* The path main writes the current unit's converted text to.
CurrentNewPath ==
  CASE phase = "files" -> newFilePath(CurrentUnit, targetLanguage)
    [] phase = "components" -> componentNewPath(CurrentUnit)
    [] phase = "others" -> otherNewPath(CurrentUnit)

\* fs.writeFileSync on the output tree (mkdirSync of the parents included).
writeFileSync(tree, path, text) ==
  [exists |-> TRUE,
   files |-> [p \in DOMAIN tree.files \cup {path} |-> IF p = path THEN text ELSE tree.files[p]]]

\* ------------------------------------------------------------------ actions

\* An argument check that looks at the repository URL only.
ArgumentCheckOfUrlOnly ==
  /\ pc = "start"
  /\ IF ~repoUrl
     THEN /\ events' = Append(events, Log("Usage"))
          /\ exitCode' = 1
          /\ pc' = "exited"
     ELSE /\ pc' = "main"
          /\ UNCHANGED << events, exitCode >>
  /\ UNCHANGED << pipeline, repoUrl, targetLanguage, remote, tempRepo, output, error,
                  codeFiles, components, otherFiles, phase, i, converted, requests, rateLimited >>

\* The argument check at module level: usage and process.exit(1).
ArgumentCheck ==
  /\ pc = "start"
  /\ IF ~repoUrl \/ (pipeline = "general" /\ targetLanguage = NoArg)
     THEN /\ events' = Append(events, Log("Usage"))
          /\ exitCode' = 1
          /\ pc' = "exited"
     ELSE /\ pc' = "main"
          /\ UNCHANGED << events, exitCode >>
  /\ UNCHANGED << pipeline, repoUrl, targetLanguage, remote, tempRepo, output, error,
                  codeFiles, components, otherFiles, phase, i, converted, requests, rateLimited >>

\* A clean-up that creates the output directory only when there is none,
\* and keeps an existing one as it is.
CleanUpKeepsOutput ==
  /\ pc = "main"
  /\ tempRepo' = AbsentTree
  /\ output' = IF output.exists THEN output ELSE EmptyOutput
  /\ events' = Append(events, Log("Cloning repository..."))
  /\ pc' = "cloning"
  /\ UNCHANGED << pipeline, repoUrl, targetLanguage, remote, exitCode, error,
                  codeFiles, components, otherFiles, phase, i, converted, requests, rateLimited >>

\* main: delete what earlier runs left, create the output directory, start
\* the clone.
CleanUp ==
  /\ pc = "main"
  /\ tempRepo' = AbsentTree
  /\ output' = EmptyOutput
  /\ events' = Append(events, Log("Cloning repository..."))
  /\ pc' = "cloning"
  /\ UNCHANGED << pipeline, repoUrl, targetLanguage, remote, exitCode, error,
                  codeFiles, components, otherFiles, phase, i, converted, requests, rateLimited >>

\* cloneRepo resolves: temp-repo holds the repository.
cloneRepoOk ==
  /\ pc = "cloning"
  /\ tempRepo' = [exists |-> TRUE,
                  files |-> { Join(tempDir, f) : f \in remote.files \cup GitFiles },
                  pkg |-> remote.pkg]
  /\ pc' = IF pipeline = "framework" THEN "verify" ELSE "discover"
  /\ UNCHANGED << pipeline, repoUrl, targetLanguage, remote, output, exitCode, error, events,
                  codeFiles, components, otherFiles, phase, i, converted, requests, rateLimited >>

\* cloneRepo rejects: git may or may not have left a partial directory.
cloneRepoFails ==
  /\ pc = "cloning"
  /\ tempRepo' \in { AbsentTree,
                     [exists |-> TRUE, files |-> { Join(tempDir, f) : f \in GitFiles }, pkg |-> NoPkg] }
  /\ error' = "clone"
  /\ pc' = "catch"
  /\ UNCHANGED << pipeline, repoUrl, targetLanguage, remote, output, exitCode, events,
                  codeFiles, components, otherFiles, phase, i, converted, requests, rateLimited >>

\* A check that takes a package.json it cannot parse for an Angular one.
VerifyFrameworkSwallowsParseError ==
  /\ pc = "verify"
  /\ LET r == isAngularProject(tempRepo)
     IN  CASE r = "false" ->
                /\ events' = Append(events,
                                    Log("The repository does not appear to be an Angular project."))
                /\ exitCode' = 1
                /\ pc' = "exited"
                /\ UNCHANGED error
           [] r \in {"true", "throws"} ->
                /\ pc' = "discover"
                /\ UNCHANGED << events, exitCode, error >>
  /\ UNCHANGED << pipeline, repoUrl, targetLanguage, remote, tempRepo, output,
                  codeFiles, components, otherFiles, phase, i, converted, requests, rateLimited >>

\* VerifyFramework with the process.exit(1) forgotten: the message is printed
\* and the run goes on.
VerifyFrameworkWithoutExit ==
  /\ pc = "verify"
  /\ LET r == isAngularProject(tempRepo)
     IN  CASE r = "throws" ->
                /\ error' = "parse"
                /\ pc' = "catch"
                /\ UNCHANGED << events, exitCode >>
           [] r = "false" ->
                /\ events' = Append(events,
                                    Log("The repository does not appear to be an Angular project."))
                /\ pc' = "discover"
                /\ UNCHANGED << error, exitCode >>
           [] r = "true" ->
                /\ pc' = "discover"
                /\ UNCHANGED << events, exitCode, error >>
  /\ UNCHANGED << pipeline, repoUrl, targetLanguage, remote, tempRepo, output,
                  codeFiles, components, otherFiles, phase, i, converted, requests, rateLimited >>

\* Framework pipeline, main: the isAngularProject check with its
\* process.exit(1), which ends the process at once.
VerifyFramework ==
  /\ pc = "verify"
  /\ LET r == isAngularProject(tempRepo)
     IN  CASE r = "throws" ->
                /\ error' = "parse"
                /\ pc' = "catch"
                /\ UNCHANGED << events, exitCode >>
           [] r = "false" ->
                /\ events' = Append(events,
                                    Log("The repository does not appear to be an Angular project."))
                /\ exitCode' = 1
                /\ pc' = "exited"
                /\ UNCHANGED error
           [] r = "true" ->
                /\ pc' = "discover"
                /\ UNCHANGED << events, exitCode, error >>
  /\ UNCHANGED << pipeline, repoUrl, targetLanguage, remote, tempRepo, output,
                  codeFiles, components, otherFiles, phase, i, converted, requests, rateLimited >>

\* main: the first discovery (getCodeFiles or findAngularComponents).
Discover ==
  /\ pc = "discover"
  /\ IF pipeline = "general"
     THEN /\ codeFiles' \in getCodeFiles(tempRepo)
          /\ phase' = "files"
          /\ events' = Append(events, Log("Finding code files..."))
          /\ UNCHANGED components
     ELSE /\ components' \in findAngularComponents(tempRepo)
          /\ phase' = "components"
          /\ events' = Append(events, Log("Finding Angular components..."))
          /\ UNCHANGED codeFiles
  /\ i' = 1
  /\ pc' = "loop"
  /\ UNCHANGED << pipeline, repoUrl, targetLanguage, remote, tempRepo, output, exitCode, error,
                  otherFiles, converted, requests, rateLimited >>

\* main's loops, top of an iteration: the request for the current unit is
\* sent (the general pipeline skips a file of unknown language).
SendRequest ==
  /\ pc = "loop"
  /\ i <= Len(CurrentList)
  /\ IF phase = "files" /\ getLanguageFromExt(ExtName(CurrentUnit)) = "Unknown"
     THEN /\ i' = i + 1
          /\ UNCHANGED << pc, requests, events >>
     ELSE /\ requests' = requests + 1
          /\ events' = Append(events, Event("request", CurrentUnit, "", ""))
          /\ pc' = "awaitAI"
          /\ UNCHANGED i
  /\ UNCHANGED << pipeline, repoUrl, targetLanguage, remote, tempRepo, output, exitCode, error,
                  codeFiles, components, otherFiles, phase, converted, rateLimited >>

\* model.generateContent resolves.
RespondOk ==
  /\ pc = "awaitAI"
  /\ converted' = ResponseText(requests)
  /\ events' = Append(events, Event("ok", CurrentUnit, "", ResponseText(requests)))
  /\ pc' = "write"
  /\ UNCHANGED << pipeline, repoUrl, targetLanguage, remote, tempRepo, output, exitCode, error,
                  codeFiles, components, otherFiles, phase, i, requests, rateLimited >>

\* convertCode: model.generateContent rejects with status 429; convertCode
\* has no handler, so main's try block throws.
convertCodeRateLimited ==
  /\ pc = "awaitAI"
  /\ phase = "files"
  /\ rateLimited < MaxRateLimits
  /\ rateLimited' = rateLimited + 1
  /\ events' = Append(events, Event("ratelimit", CurrentUnit, "", ""))
  /\ error' = "429"
  /\ pc' = "catch"
  /\ UNCHANGED << pipeline, repoUrl, targetLanguage, remote, tempRepo, output, exitCode,
                  codeFiles, components, otherFiles, phase, i, converted, requests >>

\* convertComponent's catch with the wait left out: the request is sent
\* again at once.
convertComponentRetriesAtOnce ==
  /\ pc = "awaitAI"
  /\ phase = "components"
  /\ rateLimited < MaxRateLimits
  /\ rateLimited' = rateLimited + 1
  /\ requests' = requests + 1
  /\ events' = events \o << Event("ratelimit", CurrentUnit, "", ""),
                            Log("Rate limit exceeded. Waiting 60 seconds..."),
                            Event("request", CurrentUnit, "", "") >>
  /\ pc' = "awaitAI"
  /\ UNCHANGED << pipeline, repoUrl, targetLanguage, remote, tempRepo, output, exitCode, error,
                  codeFiles, components, otherFiles, phase, i, converted >>

\* convertComponent, catch with error.status === 429: the 60 s wait starts.
convertComponentRateLimited ==
  /\ pc = "awaitAI"
  /\ phase = "components"
  /\ rateLimited < MaxRateLimits
  /\ rateLimited' = rateLimited + 1
  /\ events' = events \o << Event("ratelimit", CurrentUnit, "", ""),
                            Log("Rate limit exceeded. Waiting 60 seconds...") >>
  /\ pc' = "cooldown"
  /\ UNCHANGED << pipeline, repoUrl, targetLanguage, remote, tempRepo, output, exitCode, error,
                  codeFiles, components, otherFiles, phase, i, converted, requests >>

\* convertFile without its catch, as convertCode is: a 429 is thrown on.
convertFileThrows ==
  /\ pc = "awaitAI"
  /\ phase = "others"
  /\ rateLimited < MaxRateLimits
  /\ rateLimited' = rateLimited + 1
  /\ events' = Append(events, Event("ratelimit", CurrentUnit, "", ""))
  /\ error' = "429"
  /\ pc' = "catch"
  /\ UNCHANGED << pipeline, repoUrl, targetLanguage, remote, tempRepo, output, exitCode,
                  codeFiles, components, otherFiles, phase, i, converted, requests >>

\* convertFile, catch with error.status === 429: the 60 s wait starts.
convertFileRateLimited ==
  /\ pc = "awaitAI"
  /\ phase = "others"
  /\ rateLimited < MaxRateLimits
  /\ rateLimited' = rateLimited + 1
  /\ events' = events \o << Event("ratelimit", CurrentUnit, "", ""),
                            Log("Rate limit exceeded. Waiting 60 seconds...") >>
  /\ pc' = "cooldown"
  /\ UNCHANGED << pipeline, repoUrl, targetLanguage, remote, tempRepo, output, exitCode, error,
                  codeFiles, components, otherFiles, phase, i, converted, requests >>

\* convertComponent and convertFile: the 60 s are over, the function calls
\* itself and sends the request of the same unit again.
CooldownElapsed ==
  /\ pc = "cooldown"
  /\ requests' = requests + 1
  /\ events' = events \o << Event("cooldown", CurrentUnit, "", ""),
                            Event("request", CurrentUnit, "", "") >>
  /\ pc' = "awaitAI"
  /\ UNCHANGED << pipeline, repoUrl, targetLanguage, remote, tempRepo, output, exitCode, error,
                  codeFiles, components, otherFiles, phase, i, converted, rateLimited >>

\* The error swallowed and the unit skipped: the loop goes on with the next.
RespondErrorSkipsUnit ==
  /\ pc = "awaitAI"
  /\ events' = Append(events, Event("error", CurrentUnit, "", ""))
  /\ i' = i + 1
  /\ pc' = "loop"
  /\ UNCHANGED << pipeline, repoUrl, targetLanguage, remote, tempRepo, output, exitCode, error,
                  codeFiles, components, otherFiles, phase, converted, requests, rateLimited >>

\* model.generateContent rejects with another status: the error is thrown on.
RespondError ==
  /\ pc = "awaitAI"
  /\ events' = Append(events, Event("error", CurrentUnit, "", ""))
  /\ error' = "service"
  /\ pc' = "catch"
  /\ UNCHANGED << pipeline, repoUrl, targetLanguage, remote, tempRepo, output, exitCode,
                  codeFiles, components, otherFiles, phase, i, converted, requests, rateLimited >>

\* A loop body that goes on to the next unit right after the write.
WriteOutputWithoutPacing ==
  /\ pc = "write"
  /\ \/ /\ output' = writeFileSync(output, CurrentNewPath, converted)
        /\ events' = Append(events, Event("write", CurrentUnit, CurrentNewPath, converted))
        /\ i' = i + 1
        /\ pc' = "loop"
        /\ UNCHANGED error
     \/ /\ error' = "fs"
        /\ pc' = "catch"
        /\ UNCHANGED << output, events, i >>
  /\ UNCHANGED << pipeline, repoUrl, targetLanguage, remote, tempRepo, exitCode,
                  codeFiles, components, otherFiles, phase, converted, requests, rateLimited >>

\* main's loops, after the await: the output path is computed and the file
\* written (the file system may refuse), then the 2 s delay starts.
WriteOutput ==
  /\ pc = "write"
  /\ \/ /\ output' = writeFileSync(output, CurrentNewPath, converted)
        /\ events' = Append(events, Event("write", CurrentUnit, CurrentNewPath, converted))
        /\ pc' = "pacing"
        /\ UNCHANGED error
     \/ /\ error' = "fs"
        /\ pc' = "catch"
        /\ UNCHANGED << output, events >>
  /\ UNCHANGED << pipeline, repoUrl, targetLanguage, remote, tempRepo, exitCode,
                  codeFiles, components, otherFiles, phase, i, converted, requests, rateLimited >>

\* main's loops: the 2 s delay is over, the loop moves to the next unit.
PacingElapsed ==
  /\ pc = "pacing"
  /\ events' = Append(events, Event("pace", CurrentUnit, "", ""))
  /\ i' = i + 1
  /\ pc' = "loop"
  /\ UNCHANGED << pipeline, repoUrl, targetLanguage, remote, tempRepo, output, exitCode, error,
                  codeFiles, components, otherFiles, phase, converted, requests, rateLimited >>

\* General pipeline, main: the loop is over.
FilesDone ==
  /\ pc = "loop"
  /\ phase = "files"
  /\ i > Len(codeFiles)
  /\ events' = Append(events, Log("Conversion complete."))
  /\ pc' = "finally"
  /\ UNCHANGED << pipeline, repoUrl, targetLanguage, remote, tempRepo, output, exitCode, error,
                  codeFiles, components, otherFiles, phase, i, converted, requests, rateLimited >>

\* A main that writes the manifest as soon as the components are converted,
\* before the other files.
ComponentsDoneWritesManifest ==
  /\ pc = "loop"
  /\ phase = "components"
  /\ i > Len(components)
  /\ otherFiles' \in getOtherFiles(tempRepo)
  /\ phase' = "others"
  /\ i' = 1
  /\ output' = writeFileSync(output, Join(outputDir, "package.json"), reactPkgJson)
  /\ events' = events \o << Event("manifest", "", Join(outputDir, "package.json"), reactPkgJson),
                            Log("Converting other TypeScript files...") >>
  /\ UNCHANGED << pipeline, repoUrl, targetLanguage, remote, tempRepo, pc, exitCode, error,
                  codeFiles, components, converted, requests, rateLimited >>

\* Framework pipeline, main: the component loop is over, getOtherFiles runs.
ComponentsDone ==
  /\ pc = "loop"
  /\ phase = "components"
  /\ i > Len(components)
  /\ otherFiles' \in getOtherFiles(tempRepo)
  /\ phase' = "others"
  /\ i' = 1
  /\ events' = Append(events, Log("Converting other TypeScript files..."))
  /\ UNCHANGED << pipeline, repoUrl, targetLanguage, remote, tempRepo, output, pc, exitCode, error,
                  codeFiles, components, converted, requests, rateLimited >>

\* Framework pipeline, main: the other-files loop is over,
\* createReactPackageJson writes the manifest (the file system may refuse).
createReactPackageJson ==
  /\ pc = "loop"
  /\ phase = "others"
  /\ i > Len(otherFiles)
  /\ \/ /\ output' = writeFileSync(output, Join(outputDir, "package.json"), reactPkgJson)
        /\ events' = events \o << Log("Creating React package.json..."),
                                  Event("manifest", "", Join(outputDir, "package.json"), reactPkgJson),
                                  Log("Conversion complete.") >>
        /\ pc' = "finally"
        /\ UNCHANGED error
     \/ /\ events' = Append(events, Log("Creating React package.json..."))
        /\ error' = "fs"
        /\ pc' = "catch"
        /\ UNCHANGED output
  /\ UNCHANGED << pipeline, repoUrl, targetLanguage, remote, tempRepo, exitCode,
                  codeFiles, components, otherFiles, phase, i, converted, requests, rateLimited >>

\* main, catch: the error is logged and nothing else.
Catch ==
  /\ pc = "catch"
  /\ events' = Append(events, Log("Error:"))
  /\ pc' = "finally"
  /\ UNCHANGED << pipeline, repoUrl, targetLanguage, remote, tempRepo, output, exitCode, error,
                  codeFiles, components, otherFiles, phase, i, converted, requests, rateLimited >>

\* main, finally: temp-repo is deleted; main returns and the process ends
\* with the default exit code.
Finally ==
  /\ pc = "finally"
  /\ tempRepo' = AbsentTree
  /\ exitCode' = 0
  /\ pc' = "exited"
  /\ UNCHANGED << pipeline, repoUrl, targetLanguage, remote, output, error, events,
                  codeFiles, components, otherFiles, phase, i, converted, requests, rateLimited >>

Next ==
  \/ ArgumentCheck
  \/ CleanUp
  \/ cloneRepoOk
  \/ cloneRepoFails
  \/ VerifyFramework
  \/ Discover
  \/ SendRequest
  \/ RespondOk
  \/ convertCodeRateLimited
  \/ convertComponentRateLimited
  \/ convertFileRateLimited
  \/ CooldownElapsed
  \/ RespondError
  \/ WriteOutput
  \/ PacingElapsed
  \/ FilesDone
  \/ ComponentsDone
  \/ createReactPackageJson
  \/ Catch
  \/ Finally

Spec == Init /\ [][Next]_vars

\* ------------------------------------------- the framework pipeline, for ever

\* Repositories with a component, another file, both or neither, that are
\* Angular projects (angular.json) or not.
LiveRepositories ==
  { [files |-> code \cup m, pkg |-> NoPkg] :
      code \in SUBSET {"src/app/foo.component.ts", "src/app/foo.ts"},
      m \in { {}, {"angular.json"} } }

\* The framework pipeline started with a URL of such a repository.
InitLive ==
  /\ pipeline = "framework"
  /\ repoUrl = TRUE
  /\ targetLanguage = NoArg
  /\ remote \in LiveRepositories
  /\ \E stale \in StaleStates : tempRepo = stale[1] /\ output = stale[2]
  /\ pc = "start"
  /\ exitCode = 0
  /\ error = "none"
  /\ codeFiles = <<>>
  /\ components = <<>>
  /\ otherFiles = <<>>
  /\ phase = "none"
  /\ i = 0
  /\ converted = ""
  /\ requests = 0
  /\ rateLimited = 0
  /\ events = <<>>

\* A retry loop that fails on a 429 as on any other error.
RateLimitedUncountedThrows ==
  /\ pc = "awaitAI"
  /\ error' = "429"
  /\ pc' = "catch"
  /\ UNCHANGED << pipeline, repoUrl, targetLanguage, remote, tempRepo, output, exitCode, events,
                  codeFiles, components, otherFiles, phase, i, converted, requests, rateLimited >>

\* convertComponent and convertFile, catch with error.status === 429: the
\* 60 s wait starts. The code keeps no count of its retries, and here none
\* is kept either: a service that answers 429 for ever is a cycle.
RateLimitedUncounted ==
  /\ pc = "awaitAI"
  /\ pc' = "cooldown"
  /\ UNCHANGED << pipeline, repoUrl, targetLanguage, remote, tempRepo, output, exitCode, error, events,
                  codeFiles, components, otherFiles, phase, i, converted, requests, rateLimited >>

\* The 60 s are over: the function calls itself and sends the request again.
CooldownElapsedUncounted ==
  /\ pc = "cooldown"
  /\ pc' = "awaitAI"
  /\ UNCHANGED << pipeline, repoUrl, targetLanguage, remote, tempRepo, output, exitCode, error, events,
                  codeFiles, components, otherFiles, phase, i, converted, requests, rateLimited >>

NextLive ==
  \/ ArgumentCheck
  \/ CleanUp
  \/ cloneRepoOk
  \/ cloneRepoFails
  \/ VerifyFramework
  \/ Discover
  \/ SendRequest
  \/ RespondOk
  \/ RateLimitedUncounted
  \/ CooldownElapsedUncounted
  \/ RespondError
  \/ WriteOutput
  \/ PacingElapsed
  \/ ComponentsDone
  \/ createReactPackageJson
  \/ Catch
  \/ Finally

\* The process takes its next step whenever it has one: timers fire, git and
\* the service answer.
SpecLive == InitLive /\ [][NextLive]_vars /\ WF_vars(NextLive)

\* ------------------------------------------------- component discovery alone

\* Repositories of component files only: one component with its template and
\* both styles, and one whose name holds ".component.ts" twice, with its
\* template.
TriadUniverse ==
  { "src/app/foo.component.ts", "src/app/foo.component.html",
    "src/app/foo.component.css", "src/app/foo.component.scss",
    "p.component.ts.q.component.ts", "p.component.ts.q.component.html" }

TriadRepositories ==
  { [files |-> code \cup {"angular.json"}, pkg |-> NoPkg] :
      code \in { c \in SUBSET TriadUniverse : Cardinality(c) <= MaxFiles } }

\* The framework pipeline started with a URL of such a repository.
InitTriad ==
  /\ pipeline = "framework"
  /\ repoUrl = TRUE
  /\ targetLanguage = NoArg
  /\ remote \in TriadRepositories
  /\ \E stale \in StaleStates : tempRepo = stale[1] /\ output = stale[2]
  /\ pc = "start"
  /\ exitCode = 0
  /\ error = "none"
  /\ codeFiles = <<>>
  /\ components = <<>>
  /\ otherFiles = <<>>
  /\ phase = "none"
  /\ i = 0
  /\ converted = ""
  /\ requests = 0
  /\ rateLimited = 0
  /\ events = <<>>

\* main up to and including findAngularComponents.
NextTriad ==
  \/ ArgumentCheck
  \/ CleanUp
  \/ cloneRepoOk
  \/ VerifyFramework
  \/ Discover

SpecTriad == InitTriad /\ [][NextTriad]_vars

\* ---------------------------------------------------------------- vocabulary

\* The positions of events at which ev happened (for unit u).
Positions(ev) == { k \in DOMAIN events : events[k].ev = ev }
PositionsOf(ev, u) == { k \in Positions(ev) : events[k].unit = u }

\* The process ended in the argument check, before main.
UsageExit == pc = "exited" /\ events = << Log("Usage") >>

\* main has started.
StartedMain == pc # "start" /\ ~UsageExit

\* The clone has succeeded.
Cloned == StartedMain /\ pc \notin {"main", "cloning"} /\ error # "clone"

\* The tree a successful clone puts in temp-repo.
ClonedTree ==
  [exists |-> TRUE, files |-> { Join(tempDir, f) : f \in remote.files \cup GitFiles },
   pkg |-> remote.pkg]

\* The run's terminal states in the words of the specification.
NotAngularExit ==
  /\ pc = "exited"
  /\ Len(events) > 0
  /\ events[Len(events)] = Log("The repository does not appear to be an Angular project.")
Done == pc \in {"finally", "exited"} /\ error = "none" /\ ~UsageExit /\ ~NotAngularExit
Failed == error # "none" \/ NotAngularExit

\* The relative path rel with its final suffix replaced by ext.
WithSuffix(rel, suffix, ext) == SubSeq(rel, 1, Len(rel) - Len(suffix)) \o ext

\* The units main discovered, in the order it processes them.
Units ==
  IF pipeline = "general" THEN codeFiles
  ELSE [k \in 1..Len(components) |-> components[k].ts] \o otherFiles

\* The output files that are not the manifest.
ConvertedFiles == DOMAIN output.files \ { Join(outputDir, "package.json") }

\* ---------------------------------------------------------------- C1

\* C1: in both pipelines, whenever a run that started main() has terminated,
\* temp-repo does not exist.
C1_ScratchDeletedOnEveryExit ==
  (pc = "exited" /\ StartedMain) => ~tempRepo.exists

\* ---------------------------------------------------------------- C2

\* C2: every run that ends in FAILED by an error (clone, conversion, file
\* system) logs it and terminates with a non-zero exit code, and only a run
\* that reaches DONE terminates with exit code 0.
C2_FailedRunExitsNonZero ==
  (pc = "exited" /\ StartedMain) =>
    /\ error # "none" => (exitCode # 0 /\ Log("Error:") \in { events[k] : k \in DOMAIN events })
    /\ exitCode = 0 => Done

\* ---------------------------------------------------------------- C3

\* C3: in the general pipeline a 429 response never makes the run fail: the
\* run is waiting the cooldown for that unit, or has waited it and sent the
\* unit's request again.
C3_GeneralRetriesOnRateLimit ==
  pipeline = "general" =>
    /\ error # "429"
    /\ \A k \in Positions("ratelimit") :
         \/ pc = "cooldown" /\ k = Len(events)
         \/ \E c \in PositionsOf("cooldown", events[k].unit), r \in PositionsOf("request", events[k].unit) :
              k < c /\ c < r

\* ---------------------------------------------------------------- C4

\* C4: in the framework pipeline every 429 response, of convertComponent and
\* of convertFile alike, is followed by the notice, one cooldown and the
\* request of the same unit again, however many came before; the run does
\* not fail by it and the loop stays on the unit.
C4_FrameworkRetriesEveryRateLimit ==
  pipeline = "framework" =>
    /\ error # "429"
    /\ \A k \in Positions("ratelimit") :
         /\ Len(events) >= k + 1
         /\ events[k + 1] = Log("Rate limit exceeded. Waiting 60 seconds...")
         /\ IF Len(events) = k + 1
            THEN pc = "cooldown" /\ CurrentUnit = events[k].unit
            ELSE /\ Len(events) >= k + 3
                 /\ events[k + 2] = Event("cooldown", events[k].unit, "", "")
                 /\ events[k + 3] = Event("request", events[k].unit, "", "")

\* A run of the framework pipeline that was rate limited once in
\* convertComponent and once in convertFile and still completed.
C4_Witness ==
  /\ pipeline = "framework"
  /\ pc = "exited"
  /\ Done
  /\ \E k \in Positions("ratelimit") : EndsWith(events[k].unit, ".component.ts")
  /\ \E k \in Positions("ratelimit") : ~EndsWith(events[k].unit, ".component.ts")

\* ---------------------------------------------------------------- C5

RECURSIVE OutputOf(_)
OutputOf(n) ==
  IF n = 0 THEN EmptyOutput
  ELSE IF events[n].ev \in {"write", "manifest"}
       THEN writeFileSync(OutputOf(n - 1), events[n].path, events[n].text)
       ELSE OutputOf(n - 1)

\* C6: once the service has answered a unit's request with an error that is
\* not a rate limit, nothing but the error log follows: no request, no
\* response, no write; and the output tree is the one the writes before the
\* error produced, every file written for an earlier unit included.
C6_FatalErrorStopsAndKeepsOutput ==
  \A k \in Positions("error") :
    /\ \A j \in (k + 1)..Len(events) : events[j] = Log("Error:")
    /\ Positions("error") = {k}
    /\ output = OutputOf(k)
    /\ \A w \in Positions("write") : w < k /\ events[w].path \in DOMAIN output.files
    /\ pc \in {"catch", "finally", "exited"}

\* A run that ended after an error on a later unit, with an earlier unit's
\* output written and a unit still to come.
C6_Witness ==
  /\ pc = "exited"
  /\ \E k \in Positions("error") : \E w \in Positions("write") : w < k
  /\ i < Len(CurrentList)

\* ---------------------------------------------------------------- C7

\* C7: a component at relative path P/<base>.component.ts is written to
\* converted-code/P/<base>.tsx (src/app/foo.component.ts to
\* converted-code/src/app/foo.tsx), with the response's text as content.
C7_ComponentWrittenAtItsRelativeDirectory ==
  \A w \in Positions("write") :
    EndsWith(events[w].unit, ".component.ts") /\ pipeline = "framework" =>
      /\ events[w].path =
           Join(outputDir, WithSuffix(Relative(tempDir, events[w].unit), ".component.ts", ".tsx"))
      /\ \E o \in PositionsOf("ok", events[w].unit) : events[w].text = events[o].text

\* ---------------------------------------------------------------- C8

\* C8: in the general pipeline the file at relative path R is written to
\* converted-code/R with only R's final extension replaced, by the mapped
\* extension of the target language or by .txt.
C8_OnlyFinalExtensionReplaced ==
  \A w \in Positions("write") :
    pipeline = "general" =>
      LET R == Relative(tempDir, events[w].unit)
      IN  events[w].path =
            Join(outputDir, WithSuffix(R, ExtName(R), getExtFromLanguage(targetLanguage)))

\* ---------------------------------------------------------------- C9

\* C9: in a run that reached DONE no two units were written to the same
\* path, and the output tree holds as many converted files as units were
\* discovered.
C9_OneOutputPerUnit ==
  (pc = "exited" /\ Done) =>
    /\ \A v, w \in Positions("write") : events[v].path = events[w].path => v = w
    /\ Cardinality(ConvertedFiles) = Len(Units)

\* ---------------------------------------------------------------- C10

\* C10: in the framework pipeline, once the clone has succeeded and
\* isAngularProject has answered false for it, the process has ended with
\* exit code 1 and the non-Angular message as its last output, no request
\* was sent, and converted-code is the empty directory made at the start.
C10_NotAngularExitsEmptyHanded ==
  ( /\ pipeline = "framework"
    /\ Cloned
    /\ pc # "verify"
    /\ isAngularProject(ClonedTree) = "false" ) =>
      /\ pc = "exited"
      /\ exitCode = 1
      /\ requests = 0
      /\ Positions("request") = {}
      /\ output = EmptyOutput
      /\ events[Len(events)] = Log("The repository does not appear to be an Angular project.")
      /\ error = "none"

\* A repository with a component and a package.json that names only react,
\* after the framework pipeline's run on it has ended with exit code 1.
C10_Witness ==
  /\ pipeline = "framework"
  /\ pc = "exited"
  /\ Join(tempDir, "src/app/foo.component.ts") \in ClonedTree.files
  /\ "package.json" \in remote.files
  /\ remote.pkg.valid /\ remote.pkg.dependencies = {"react"}
  /\ exitCode = 1
  /\ output = EmptyOutput

\* ---------------------------------------------------------------- C11

\* The repository has angular.json, or a package.json that lists a
\* dependency or devDependency whose name starts with @angular/.
HasAngularMarks ==
  \/ "angular.json" \in remote.files
  \/ /\ "package.json" \in remote.files
     /\ \E dep \in remote.pkg.dependencies \cup remote.pkg.devDependencies :
          StartsWith(dep, "@angular/")

\* C11: on the cloned repository isAngularProject returns true if the
\* repository has angular.json or an @angular/ dependency in package.json,
\* and returns false in every other case.
C11_IsAngularProjectIsTotal ==
  (pipeline = "framework" /\ pc = "verify") =>
    isAngularProject(tempRepo) = IF HasAngularMarks THEN "true" ELSE "false"

\* ---------------------------------------------------------------- C12

\* The names of the directories between the workspace root and a file.
RECURSIVE AncestorNames(_)
AncestorNames(rel) ==
  LET k == IndexOf(rel, "/")
  IN  IF k = 0 THEN {}
      ELSE { SubSeq(rel, 1, k - 1) } \cup AncestorNames(SubSeq(rel, k + 1, Len(rel)))

\* The file lies, at some depth, below a hidden directory or node_modules.
InSkippedDirectory(full) ==
  \E d \in AncestorNames(Relative(tempDir, full)) :
    StartsWith(d, ".") \/ d = "node_modules"

\* The paths a discovery result names.
DiscoveredPaths(kind, list) ==
  IF kind = "component"
  THEN UNION { { list[k].ts, list[k].html, list[k].css } : k \in DOMAIN list } \ { null }
  ELSE { list[k] : k \in DOMAIN list }

\* The unit the last step sent to the service or wrote out, if it did.
LastStepHandled ==
  IF Len(events) > 0 /\ events[Len(events)].ev \in {"request", "write"}
  THEN { events[Len(events)].unit }
  ELSE {}

\* C12: none of the three discovery functions returns, for the cloned tree,
\* a file that has a hidden directory or node_modules among its ancestors, at
\* whatever depth; the lists main iterates over hold no such file, and no
\* step sends such a file to the service or writes its output.
C12_SkippedDirectoriesAreNeverEntered ==
  /\ pc = "discover" =>
       \A kind \in {"code", "component", "other"} :
         \A list \in traverse(tempRepo, tempDir, kind) :
           \A f \in DiscoveredPaths(kind, list) : ~InSkippedDirectory(f)
  /\ pc = "loop" =>
       \A f \in DiscoveredPaths("code", codeFiles)
                \cup DiscoveredPaths("component", components)
                \cup DiscoveredPaths("other", otherFiles) : ~InSkippedDirectory(f)
  /\ \A f \in LastStepHandled : ~InSkippedDirectory(f)

\* A run that converted something from a repository that also holds a file
\* two levels down in a hidden directory and a file in node_modules.
C12_Witness ==
  /\ Done
  /\ Positions("write") # {}
  /\ \E f \in remote.files : Includes(f, "/.cache/")
  /\ "node_modules/x.js" \in remote.files

\* ---------------------------------------------------------------- C13

\* The keys of the language table.
TableExtensions == { e[1] : e \in langMap }

\* The files of the clone outside skipped directories whose extension is a
\* key of the language table.
RecognizedFiles ==
  { f \in ClonedTree.files : ~InSkippedDirectory(f) /\ ExtName(f) \in TableExtensions }

\* The list holds every recognized file once and nothing else.
ListsRecognizedFilesOnce(list) ==
  /\ { list[k] : k \in DOMAIN list } = RecognizedFiles
  /\ Len(list) = Cardinality(RecognizedFiles)

\* C13: in the general pipeline getCodeFiles returns, in whatever order,
\* each file outside the skipped directories whose extension is in the
\* language table exactly once and no other file, and that is the list main
\* iterates over; when the run is done each of them has been written out
\* once; and no step sends a file with another extension to the service or
\* writes its output.
C13_FlatDiscoveryIsTheLanguageTable ==
  pipeline = "general" =>
    /\ pc = "discover" => \A list \in getCodeFiles(tempRepo) : ListsRecognizedFilesOnce(list)
    /\ pc = "loop" => ListsRecognizedFilesOnce(codeFiles)
    /\ Done =>
         \A f \in RecognizedFiles :
           /\ Cardinality(PositionsOf("write", f)) = 1
           /\ \A k \in PositionsOf("write", f) : events[k].path \in DOMAIN output.files
    /\ \A f \in LastStepHandled : ExtName(f) \in TableExtensions

\* The general pipeline is done with a repository that holds a.js and b.md:
\* a.js was written out.
C13_Witness ==
  /\ pipeline = "general"
  /\ Done
  /\ {"a.js", "b.md"} \subseteq remote.files
  /\ PositionsOf("write", Join(tempDir, "a.js")) # {}

\* ---------------------------------------------------------------- C14

\* The unit the claim describes for the logic file D/foo.component.ts.
ExpectedTriad(ts) ==
  LET D == DirName(ts)
      foo == WithSuffix(BaseName(ts), ".component.ts", "")
      htmlFile == Join(D, foo \o ".component.html")
      cssFile == Join(D, foo \o ".component.css")
      scssFile == Join(D, foo \o ".component.scss")
  IN  [ts |-> ts,
       html |-> IF isFile(tempRepo, htmlFile) THEN htmlFile ELSE null,
       css |-> IF isFile(tempRepo, cssFile) THEN cssFile
               ELSE IF isFile(tempRepo, scssFile) THEN scssFile ELSE null]

\* C14: every unit findAngularComponents returns for a file
\* D/foo.component.ts has D/foo.component.html as its template if that file
\* exists and none otherwise, and as its style D/foo.component.css if that
\* exists, else D/foo.component.scss if that exists, else none.
C14_TriadSharesDirectoryAndBaseName ==
  (pipeline = "framework" /\ pc = "loop" /\ phase = "components") =>
    \A k \in DOMAIN components : components[k] = ExpectedTriad(components[k].ts)

\* ---------------------------------------------------------------- C15

\* The files of the repository that a discovery function selects.
Candidates(kind) ==
  { f \in ClonedTree.files : ~InSkippedDirectory(f) /\ Selected(kind, BaseName(f)) }

\* The output paths of a completed run, as the repository and the arguments
\* alone determine them.
ExpectedOutputPaths ==
  IF pipeline = "general"
  THEN { newFilePath(f, targetLanguage) : f \in Candidates("code") }
  ELSE { componentNewPath(f) : f \in Candidates("component") }
       \cup { otherNewPath(f) : f \in Candidates("other") }
       \cup { Join(outputDir, "package.json") }

\* C15: whatever earlier runs left in temp-repo and converted-code, when
\* the run starts cloning temp-repo does not exist and converted-code is an
\* empty directory; when the process has ended the output tree holds what
\* this run wrote and nothing else, and after a completed run its paths are
\* the ones the repository and the arguments determine.
C15_EveryRunStartsClean ==
  /\ pc = "cloning" => (~tempRepo.exists /\ output = EmptyOutput)
  /\ (pc = "exited" /\ ~UsageExit) => output = OutputOf(Len(events))
  /\ (pc = "exited" /\ Done) => DOMAIN output.files = ExpectedOutputPaths

\* A completed run of the framework pipeline that wrote a component: the
\* manifest in converted-code is the one this run wrote.
C15_Witness ==
  /\ pc = "exited"
  /\ Done
  /\ pipeline = "framework"
  /\ Positions("write") # {}
  /\ output.files[Join(outputDir, "package.json")] = reactPkgJson
  /\ Join(outputDir, "old.py") \notin DOMAIN output.files

\* ---------------------------------------------------------------- C16

\* A required command-line argument is missing.
ArgsMissing == ~repoUrl \/ (pipeline = "general" /\ targetLanguage = NoArg)

\* C16: when a required argument is missing, the only step the process
\* takes prints the usage message and exits with code 1, leaving temp-repo
\* and converted-code as they were; it never clones and never sends a
\* request.
C16_MissingArgumentOnlyPrintsUsage ==
  /\ [](ArgsMissing =>
          /\ pc \in {"start", "exited"}
          /\ pc = "exited" => (exitCode = 1 /\ events = << Log("Usage") >>)
          /\ requests = 0
          /\ Positions("request") = {}
          /\ ~Cloned)
  /\ [][ArgsMissing =>
          /\ pc' = "exited"
          /\ exitCode' = 1
          /\ events' = << Log("Usage") >>
          /\ UNCHANGED << tempRepo, output, requests >>]_vars

\* The general pipeline, started with a URL but no target language where
\* earlier runs had left both directories, has exited with code 1 and the
\* directories are still there.
C16_Witness ==
  /\ pipeline = "general"
  /\ repoUrl
  /\ targetLanguage = NoArg
  /\ pc = "exited"
  /\ exitCode = 1
  /\ tempRepo = StaleTree
  /\ output = StaleOutput

\* ---------------------------------------------------------------- C17

ManifestPath == Join(outputDir, "package.json")

\* C17: in the framework pipeline a completed run leaves
\* converted-code/package.json with the template content; the manifest is
\* written after every request and every write, when every component and
\* every other file of the repository has been written out; a failed run
\* leaves no manifest; and no unit is written to the manifest's path.
C17_ManifestIsWrittenLast ==
  pipeline = "framework" =>
    /\ Done => /\ ManifestPath \in DOMAIN output.files
               /\ output.files[ManifestPath] = reactPkgJson
    /\ \A m \in Positions("manifest") :
         /\ \A k \in Positions("request") \cup Positions("write") : k < m
         /\ \A f \in Candidates("component") \cup Candidates("other") :
              \E k \in PositionsOf("write", f) : k < m
         /\ Cardinality(Positions("manifest")) = 1
    /\ Failed => ManifestPath \notin DOMAIN output.files
    /\ \A k \in Positions("write") : events[k].path # ManifestPath

\* A completed framework run that wrote a component and another file
\* before the manifest.
C17_Witness ==
  /\ pipeline = "framework"
  /\ Done
  /\ components # <<>>
  /\ otherFiles # <<>>
  /\ Positions("manifest") # {}
  /\ ManifestPath \in DOMAIN output.files

\* ---------------------------------------------------------------- C18

\* The state of the specification's run state machine the process is in.
Stage ==
  CASE pc = "start" -> "START"
    [] pc = "main" -> "CLEAN_WORKSPACE"
    [] pc = "cloning" -> "CLONE"
    [] pc = "verify" -> "VERIFY_FRAMEWORK"
    [] pc = "discover" -> "DISCOVER"
    [] pc \in {"loop", "awaitAI", "cooldown", "write", "pacing"} ->
         IF pc = "loop" /\ phase = "others" /\ i > Len(otherFiles)
         THEN "FINALIZE_OUTPUT_METADATA"
         ELSE "CONVERT_LOOP"
    [] pc \in {"catch", "finally", "exited"} ->
         IF UsageExit THEN "USAGE_EXIT"
         ELSE IF Failed THEN "FAILED" ELSE "DONE"

\* The state that follows in a run without error.
Successor(stage) ==
  CASE stage = "START" -> {"CLEAN_WORKSPACE", "USAGE_EXIT"}
    [] stage = "CLEAN_WORKSPACE" -> {"CLONE"}
    [] stage = "CLONE" -> IF pipeline = "framework" THEN {"VERIFY_FRAMEWORK"} ELSE {"DISCOVER"}
    [] stage = "VERIFY_FRAMEWORK" -> {"DISCOVER"}
    [] stage = "DISCOVER" -> {"CONVERT_LOOP"}
    [] stage = "CONVERT_LOOP" ->
         IF pipeline = "framework" THEN {"FINALIZE_OUTPUT_METADATA"} ELSE {"DONE"}
    [] stage = "FINALIZE_OUTPUT_METADATA" -> {"DONE"}
    [] OTHER -> {}

\* Every step stays in its state, moves to the next one, or fails.
InOrder == Stage' \in {Stage} \cup Successor(Stage) \cup {"FAILED"}

\* A request has been sent only if the clone succeeded and, in the
\* framework pipeline, the project was found to be Angular.
RequestsOnlyAfterCloneAndVerify ==
  requests > 0 =>
    /\ error # "clone"
    /\ pc # "exited" => tempRepo = ClonedTree
    /\ pipeline = "framework" => isAngularProject(ClonedTree) = "true"
    /\ Stage \in {"CONVERT_LOOP", "FINALIZE_OUTPUT_METADATA", "DONE", "FAILED"}

Steps == SelectSeq(events, LAMBDA e : e.ev # "log")

\* The responses of the service.
Responses == {"ok", "ratelimit", "error"}

\* The requests the service has not answered yet.
Outstanding ==
  Cardinality({ k \in DOMAIN Steps : Steps[k].ev = "request" })
    - Cardinality({ k \in DOMAIN Steps : Steps[k].ev \in Responses })

\* C19: at most one request is outstanding, and one is exactly while the
\* process awaits the service; a request is the first step of the run, or
\* follows the pacing delay of the unit before it, or the cool-down of its
\* own unit; a response answers the request just before it; a write follows
\* its unit's successful response at once and is followed by the unit's
\* pacing delay, which in turn follows nothing but a write.
C19_OneUnitAtATime ==
  LET N == Steps
  IN  /\ Outstanding = IF pc = "awaitAI" THEN 1 ELSE 0
      /\ \A k \in DOMAIN N :
           /\ N[k].ev = "request" =>
                \/ k = 1
                \/ /\ N[k - 1].ev = "pace"
                   /\ N[k - 1].unit # N[k].unit
                \/ /\ N[k - 1].ev = "cooldown"
                   /\ N[k - 1].unit = N[k].unit
           /\ N[k].ev = "request" /\ (k = 1 \/ N[k - 1].ev = "pace") =>
                N[k].unit = Units[1 + Cardinality({ j \in 1..(k - 1) : N[j].ev = "pace" })]
           /\ N[k].ev \in Responses =>
                k > 1 /\ N[k - 1].ev = "request" /\ N[k - 1].unit = N[k].unit
           /\ N[k].ev = "write" =>
                /\ k > 1 /\ N[k - 1].ev = "ok" /\ N[k - 1].unit = N[k].unit
                /\ IF k = Len(N) THEN pc = "pacing"
                   ELSE N[k + 1].ev = "pace" /\ N[k + 1].unit = N[k].unit
           /\ N[k].ev = "pace" =>
                k > 1 /\ N[k - 1].ev = "write" /\ N[k - 1].unit = N[k].unit

\* A run that wrote one unit, waited, and has sent the request for the next.
C19_Witness ==
  /\ pc = "awaitAI"
  /\ Cardinality(Positions("write")) = 1
  /\ Cardinality(Positions("pace")) = 1
  /\ Cardinality(Positions("request")) = 2

\* ---------------------------------------------------------------- C20

\* The run is done and every discovered unit has been written out.
DoneWithEveryUnitWritten ==
  /\ Done
  /\ \A k \in DOMAIN Units :
       \E w \in PositionsOf("write", Units[k]) : events[w].path \in DOMAIN output.files

\* The process is in the retry loop of a unit.
InRetryLoop == pc \in {"awaitAI", "cooldown"}

\* The clone succeeds, the project is Angular, the service answers with
\* success or rate limit only, and every request is eventually answered with
\* success.
ServiceEventuallySucceeds ==
  /\ isAngularProject(ClonedTree) = "true"
  /\ [](error \notin {"clone", "service"})
  /\ InRetryLoop ~> (pc = "write")

\* Nothing but a successful answer or an error that is not a rate limit
\* takes the process out of the retry loop.
RetryLoopLeftOnlyByAnAnswer ==
  (InRetryLoop /\ ~InRetryLoop') =>
    \/ pc' = "write" /\ events'[Len(events')].ev = "ok"
    \/ pc' = "catch" /\ error' = "service"

SecondaryFiles ==
  { f \in ClonedTree.files :
      /\ ~InSkippedDirectory(f)
      /\ ExtName(f) \in {".ts", ".js"}
      /\ ~Includes(BaseName(f), ".component.")
      /\ ~Includes(BaseName(f), ".spec.") }

\* The list holds every file of the secondary pass once and nothing else.
ListsSecondaryFilesOnce(list) ==
  /\ { list[k] : k \in DOMAIN list } = SecondaryFiles
  /\ Len(list) = Cardinality(SecondaryFiles)

\* A test file by Angular's naming: *.spec.ts or *.spec.js.
IsSpecFile(f) == EndsWith(f, ".spec.ts") \/ EndsWith(f, ".spec.js")

\* C21: in the framework pipeline getOtherFiles returns, in whatever order,
\* each .ts or .js file outside the skipped directories whose name holds
\* neither ".component." nor ".spec." exactly once and no other file, and
\* that is the list of main's second loop; no file is both a component and
\* a file of the second loop; without a rate limit no step sends a second
\* request for a file; and no step sends or writes a spec file.
C21_SecondaryPassIsDisjointFromComponents ==
  pipeline = "framework" =>
    /\ pc = "discover" => \A list \in getOtherFiles(tempRepo) : ListsSecondaryFilesOnce(list)
    /\ (pc = "loop" /\ phase = "others") =>
         /\ ListsSecondaryFilesOnce(otherFiles)
         /\ { components[k].ts : k \in DOMAIN components }
              \cap { otherFiles[k] : k \in DOMAIN otherFiles } = {}
    /\ \A f \in LastStepHandled :
         /\ rateLimited = 0 => Cardinality(PositionsOf("request", f)) <= 1
         /\ ~IsSpecFile(f)

\* A framework run without a rate limit is done with a repository that holds
\* a component, another file and a spec file: the two were written.
C21_Witness ==
  /\ pipeline = "framework"
  /\ Done
  /\ rateLimited = 0
  /\ {"src/app/foo.component.ts", "src/app/foo.ts", "src/a.spec.ts"} \subseteq remote.files
  /\ Cardinality(Positions("write")) = 2

\* ---------------------------------------------------------------- C22

\* The language names of the table.
TableLanguages == { e[2] : e \in langMap }

\* C22: each extension of the language table has one language and each
\* language one extension; from an extension of the table to its language
\* and back gives the extension, from a language of the table to its
\* extension and back gives the language; getCodeFiles accepts exactly the
\* extensions of the table, so that main never finds the language of a
\* discovered file to be Unknown. The tables are fixed: they are examined
\* where the run starts, the discovered files where the loop runs.
C22_LanguageTableIsABijection ==
  /\ pc = "start" =>
       /\ Cardinality(TableExtensions) = Cardinality(langMap)
       /\ Cardinality(TableLanguages) = Cardinality(langMap)
       /\ { e[1] : e \in extMap } = TableLanguages
       /\ \A e \in TableExtensions :
            /\ getLanguageFromExt(e) \in TableLanguages
            /\ getExtFromLanguage(getLanguageFromExt(e)) = e
       /\ \A n \in TableLanguages :
            /\ getExtFromLanguage(n) \in TableExtensions
            /\ getLanguageFromExt(getExtFromLanguage(n)) = n
       /\ CodeExtensions = TableExtensions
  /\ (pipeline = "general" /\ pc = "loop") =>
       \A k \in DOMAIN codeFiles : getLanguageFromExt(ExtName(codeFiles[k])) # "Unknown"

\* The general pipeline, asked for Python, is done with a repository that
\* holds a .js and a .ts file: both were looked up and written out as .py.
C22_Witness ==
  /\ pipeline = "general"
  /\ targetLanguage = "Python"
  /\ Done
  /\ {"a.js", "src/app/foo.ts"} \subseteq remote.files
  /\ {Join(outputDir, "a.py"), Join(outputDir, "src/app/foo.py")} \subseteq DOMAIN output.files

====
